---- MODULE Spec2Model ----
(***************************************************************************)
(* The queue-driven transcoding pipeline of h265_transcoder/tasks.py:      *)
(* the SQLite table `queue`, the files under /mnt, the scan, the batch and *)
(* retry runs of transcode_queue, and the final report.                    *)
(*                                                                         *)
(* Strings that the code takes apart are sequences of tokens: a file name  *)
(* "movie.mkv" is <<"movie", ".mkv">>, the directory "/mnt/tv.mkv" is      *)
(* <<"/mnt/tv", ".mkv">>, and BATCH and the probe tool's stdout are        *)
(* sequences of characters.  str.replace, str.endswith, str.lower,         *)
(* str.strip and int() are computed on these sequences.                    *)
(*                                                                         *)
(* `with DatabaseInterface(db)` is one transaction: what the cursor        *)
(* executed inside the block is in the table after the block.              *)
(***************************************************************************)
EXTENDS Integers, Sequences, FiniteSets, TLC

VARIABLES
    queue,            \* the table `queue`: rows in rowid (insertion) order
    fs,               \* the files on disk: full path -> content
    BATCH,            \* tasks.py:16, the environment's BATCH, a string
    DELETE,           \* tasks.py:17
    pc,               \* where the process is
    queue_list,       \* transcode_queue's argument
    idx,              \* position of transcode_queue's loop in queue_list
    video_file,       \* the Transcode object of the current entry
    ffmpeg,           \* outcome of ffmpeg.execute() for the current entry
    transcode_status, \* Transcode.transcode's local / return value
    seen,             \* what held when transcode() was entered for the entry
    processed,        \* entries transcode_queue has finished in this run
    last              \* what the last finished operation returned and logged

vars == <<queue, fs, BATCH, DELETE, pc, queue_list, idx, video_file, ffmpeg,
          transcode_status, seen, processed, last>>

(***************************************************************************)
(* Bounds of the model.                                                    *)
(***************************************************************************)
\* at most this many video files are on the disk when the program first runs
MaxFiles == 2

(***************************************************************************)
(* Strings.                                                                *)
(***************************************************************************)
MKV == ".mkv"
MP4 == ".mp4"
H265 == ".h265"
SEP == "/"

\* str.endswith(suffix), the suffix being one token
endswith(s, suffix) == Len(s) > 0 /\ s[Len(s)] = suffix

\* str.replace(old, new): every occurrence, wherever it stands
replace(s, old, new) == [i \in DOMAIN s |-> IF s[i] = old THEN new ELSE s[i]]

\* str.removesuffix(suffix)
removesuffix(s, suffix) ==
    IF endswith(s, suffix) THEN SubSeq(s, 1, Len(s) - 1) ELSE s

\* f"{path}/{filename}"
join(path, filename) == path \o <<SEP>> \o filename

\* the directory part and the base name of a full path: around its last "/"
LastSep(p) == CHOOSE i \in DOMAIN p :
                  p[i] = SEP /\ \A j \in DOMAIN p : p[j] = SEP => j <= i
dirname(p) == SubSeq(p, 1, LastSep(p) - 1)
basename(p) == SubSeq(p, LastSep(p) + 1, Len(p))

Min(a, b) == IF a <= b THEN a ELSE b

\* characters
Digits == <<"0", "1", "2", "3", "4", "5", "6", "7", "8", "9">>
IsDigit(c) == \E i \in DOMAIN Digits : Digits[i] = c
DigitVal(c) == (CHOOSE i \in DOMAIN Digits : Digits[i] = c) - 1
IsSpace(c) == c \in {" ", "\n", "\t"}
Upper == <<"A", "C", "H", "K", "M", "O", "R", "S", "T", "V">>
Lower == <<"a", "c", "h", "k", "m", "o", "r", "s", "t", "v">>

\* str.lower()
lower(s) == [i \in DOMAIN s |->
               IF \E k \in DOMAIN Upper : Upper[k] = s[i]
               THEN Lower[CHOOSE k \in DOMAIN Upper : Upper[k] = s[i]]
               ELSE s[i]]

\* str.strip(): leading and trailing white space removed
RECURSIVE lstrip(_)
lstrip(s) == IF s # <<>> /\ IsSpace(Head(s)) THEN lstrip(Tail(s)) ELSE s
RECURSIVE rstrip(_)
rstrip(s) == IF s # <<>> /\ IsSpace(s[Len(s)])
             THEN rstrip(SubSeq(s, 1, Len(s) - 1)) ELSE s
strip(s) == rstrip(lstrip(s))

\* the value of a string of decimal digits
RECURSIVE DecimalValue(_)
DecimalValue(s) == IF s = <<>> THEN 0
                   ELSE 10 * DecimalValue(SubSeq(s, 1, Len(s) - 1))
                        + DigitVal(s[Len(s)])

\* int(text): white space stripped, an optional sign, then one or more digits;
\* anything else raises ValueError
int(text) ==
    LET s == strip(text)
        signed == s # <<>> /\ Head(s) \in {"+", "-"}
        digits == IF signed THEN Tail(s) ELSE s
    IN  IF digits # <<>> /\ \A i \in DOMAIN digits : IsDigit(digits[i])
        THEN [raised |-> "none",
              value |-> IF signed /\ Head(s) = "-"
                        THEN 0 - DecimalValue(digits) ELSE DecimalValue(digits)]
        ELSE [raised |-> "ValueError", value |-> 0]

(***************************************************************************)
(* The table.                                                              *)
(***************************************************************************)
Status == {"queued", "active", "done", "failed", "skipped", "unknown"}

Row(path, filename, transcode, status) ==
    [path |-> path, filename |-> filename, transcode |-> transcode, status |-> status]

Key(r) == <<r.path, r.filename>>

Keys(q) == {Key(q[i]) : i \in DOMAIN q}

\* the (path, filename) columns of the rows a SELECT returns, in rowid order
Project(rows) == [i \in DOMAIN rows |-> Key(rows[i])]

\* the number of rows holding a status: COUNT(status) ... GROUP BY status
CountStatus(q, s) == Cardinality({i \in DOMAIN q : q[i].status = s})

\* the status of the row with a key ("absent" when there is none)
StatusOf(q, k) == IF \E i \in DOMAIN q : Key(q[i]) = k
                  THEN q[CHOOSE i \in DOMAIN q : Key(q[i]) = k].status
                  ELSE "absent"

(***************************************************************************)
(* The files.                                                              *)
(***************************************************************************)
scan_path == <<"/mnt">>
video_extensions == {MKV, MP4}

\* the directories that exist under the mount (the program creates none)
ExistingDirs == {scan_path, <<"/mnt/tv", MKV>>}

\* the video files the disk may hold when the program first runs, and what
\* each may be: "src" an original, "hvc1src" an original already tagged hvc1
Universe ==
    { [path |-> scan_path, filename |-> <<"movie", MKV>>, kind |-> "src"],
      [path |-> scan_path, filename |-> <<"movie", MP4>>, kind |-> "src"],
      [path |-> scan_path, filename |-> <<"movie", MP4>>, kind |-> "hvc1src"],
      [path |-> scan_path, filename |-> <<"clip", MP4>>, kind |-> "src"],
      [path |-> scan_path, filename |-> <<"clip", MP4>>, kind |-> "hvc1src"],
      [path |-> <<"/mnt/tv", MKV>>, filename |-> <<"ep", MKV>>, kind |-> "src"] }

\* content of a file: what it is and, for an engine output, its input file
Content(kind, of) == [kind |-> kind, of |-> of]

Disks == { d \in SUBSET Universe :
             /\ Cardinality(d) <= MaxFiles
             /\ \A a, b \in d : Key(a) = Key(b) => a = b }

DiskFs(d) == [p \in {join(f.path, f.filename) : f \in d} |->
                Content((CHOOSE f \in d : join(f.path, f.filename) = p).kind, <<>>)]

exists(f, p) == p \in DOMAIN f

\* an unlink that removes nothing
unlink_nothing(f, p) == f

\* Path(p).unlink()
unlink(f, p) == [q \in DOMAIN f \ {p} |-> f[q]]

\* writing a file at p
write(f, p, c) == [q \in DOMAIN f \cup {p} |-> IF q = p THEN c ELSE f[q]]

\* Path(src).replace(dst): rename over
rename(f, src, dst) ==
    [q \in (DOMAIN f \ {src}) \cup {dst} |-> IF q = dst THEN f[src] ELSE f[q]]

(***************************************************************************)
(* The values BATCH may have in the environment.                           *)
(***************************************************************************)
BatchValues == { <<"0">>, <<"-", "5">>, <<"a", "b", "c">>, <<"1">>, <<"2">> }

(***************************************************************************)
(* class Transcode                                                         *)
(***************************************************************************)
\* Transcode.__init__ (an entry's filename ends in .mkv or .mp4: the scan
\* admits no other; for any other name output_file would stay unset)
Transcode(path, filename) ==
    LET input_file == join(path, filename)
    IN  [path |-> path,
         filename |-> filename,
         input_file |-> input_file,
         output_file |->
             IF endswith(filename, MKV) THEN replace(input_file, MKV, MP4)
             ELSE IF endswith(filename, MP4) THEN replace(input_file, MP4, H265)
             ELSE <<>>,
         video_title |->
             IF endswith(filename, MKV) THEN removesuffix(filename, MKV)
             ELSE IF endswith(filename, MP4) THEN removesuffix(filename, MP4)
             ELSE <<>>]

NoVideo == [path |-> <<>>, filename |-> <<>>, input_file |-> <<>>,
            output_file |-> <<>>, video_title |-> <<>>]

\* delete_original that deletes the input whatever its extension
delete_original_always_unlink(f, v) == unlink(f, v.input_file)

\* Transcode.delete_original
delete_original(f, v) ==
    IF endswith(v.input_file, MKV) THEN unlink(f, v.input_file)
    ELSE IF endswith(v.input_file, MP4) THEN rename(f, v.output_file, v.input_file)
    ELSE f

(***************************************************************************)
(* The operations on the table.  db is what the storage engine does with   *)
(* the statement: "ok", or "error" (it raises sqlite3.Error).              *)
(***************************************************************************)
\* what the storage engine may do with a statement
Storage == {"ok", "error"}

\* update_status with an UPDATE that has no WHERE clause
update_status_all_rows(q, path, filename, status, db) ==
    IF db = "ok" THEN [i \in DOMAIN q |-> [q[i] EXCEPT !.status = status]] ELSE q

\* update_status whose UPDATE takes effect although the engine reported an error
update_status_ignores_error(q, path, filename, status, db) ==
    [i \in DOMAIN q |->
        IF q[i].path = path /\ q[i].filename = filename
        THEN [q[i] EXCEPT !.status = status] ELSE q[i]]

\* update_status without its effect: the UPDATE is executed and never committed
update_status_uncommitted(q, path, filename, status, db) == q

\* update_status: UPDATE queue SET status = ? WHERE path = ? AND filename = ?
update_status(q, path, filename, status, db) ==
    IF db = "ok"
    THEN [i \in DOMAIN q |->
            IF q[i].path = path /\ q[i].filename = filename
            THEN [q[i] EXCEPT !.status = status] ELSE q[i]]
    ELSE q

\* what update_status logs at level error (lines 514-518)
update_status_log(db) ==
    IF db = "ok" THEN {} ELSE {"SQLite transcode status update failed."}

\* the limit resolved one too high
batch_limit_plus_one(B) ==
    LET batch == int(B)
    IN  IF batch.raised = "ValueError" THEN <<>>
        ELSE IF batch.value > 0 THEN <<batch.value + 1>>
        ELSE <<>>

\* the limit get_batch resolves BATCH to: <<>> is None
batch_limit(B) ==
    LET batch == int(B)
    IN  IF batch.raised = "ValueError" THEN <<>>
        ELSE IF batch.value = 0 THEN <<>>
        ELSE IF batch.value > 0 THEN <<batch.value>>
        ELSE <<>>

\* the selection of get_batch by the transcode flag alone
batch_rows_any_status(q) == SelectSeq(q, LAMBDA r : r.transcode = "Y")

\* the selection of get_batch taking the active rows up again
batch_rows_with_active(q) ==
    SelectSeq(q, LAMBDA r : r.transcode = "Y" /\ r.status \in {"queued", "active"})

\* the selection of get_batch without its WHERE clause (the query of line 456)
batch_rows_unfiltered(q) == q

\* SELECT path, filename FROM queue WHERE transcode = 'Y' AND status = 'queued'
batch_rows(q) == SelectSeq(q, LAMBDA r : r.transcode = "Y" /\ r.status = "queued")

\* get_batch
get_batch(q, B, db) ==
    LET limit == batch_limit(B)
        rows == batch_rows(q)
    IN  IF db # "ok" THEN [raised |-> "SystemExit", rows |-> <<>>]
        ELSE [raised |-> "none",
              rows |-> IF limit # <<>>
                       THEN Project(SubSeq(rows, 1, Min(limit[1], Len(rows))))
                       ELSE Project(rows)]

\* retry_failed selecting the unknown rows as well as the failed ones
retry_failed_with_unknown(q, db) ==
    [raised |-> "none",
     rows |-> Project(SelectSeq(q, LAMBDA r : r.status \in {"failed", "unknown"}))]

\* retry_failed selecting every row that is not done
retry_failed_not_done(q, db) ==
    [raised |-> "none",
     rows |-> Project(SelectSeq(q, LAMBDA r : r.status # "done"))]

\* retry_failed: on a storage error failed_status_data is never bound and
\* line 354 raises UnboundLocalError
retry_failed(q, db) ==
    IF db # "ok" THEN [raised |-> "UnboundLocalError", rows |-> <<>>]
    ELSE [raised |-> "none",
          rows |-> Project(SelectSeq(q, LAMBDA r : r.status = "failed"))]

\* the keys the report's dict starts with
states_keys == {"done", "failed", "queued", "skipped", "unknown"}

\* the dict `states` after the loop of lines 171-172
states_dict(q) ==
    LET present == {q[i].status : i \in DOMAIN q}
    IN  [s \in states_keys \cup present |->
            IF s \in present THEN CountStatus(q, s) ELSE 0]

\* final_results with a dict that starts empty: a status no row holds has
\* no count
final_results_no_default(q, db) ==
    LET present == {q[i].status : i \in DOMAIN q}
    IN  [raised |-> "none",
         states |-> [s \in present |-> CountStatus(q, s)],
         final_count_msg |-> [s \in present \cap states_keys |-> CountStatus(q, s)],
         failed |-> Project(SelectSeq(q, LAMBDA r : r.status = "failed"))]

\* final_results: the dict, the counts the summary line of lines 174-177
\* reports, and the failed files that are logged one by one; on a storage
\* error status_data is never bound and line 171 raises UnboundLocalError
final_results(q, db) ==
    IF db # "ok"
    THEN [raised |-> "UnboundLocalError", states |-> [s \in {} |-> 0],
          final_count_msg |-> [s \in {} |-> 0], failed |-> <<>>]
    ELSE [raised |-> "none",
          states |-> states_dict(q),
          final_count_msg |-> [s \in states_keys |-> states_dict(q)[s]],
          failed |-> Project(SelectSeq(q, LAMBDA r : r.status = "failed"))]

\* cursor.executemany(INSERT ...): one INSERT per row of the list, in order;
\* the first row whose (path, filename) is in the table raises IntegrityError
\* and the rows after it are not executed
RECURSIVE executemany(_, _)
executemany(q, rows) ==
    IF rows = <<>> THEN [table |-> q, raised |-> "none"]
    ELSE IF Key(Head(rows)) \in Keys(q)
         THEN [table |-> q, raised |-> "IntegrityError"]
         ELSE executemany(Append(q, Head(rows)), Tail(rows))

\* insert_scan_results
insert_scan_results(q, insert_list, db) ==
    IF db # "ok" THEN [table |-> q, raised |-> "SystemExit", log |-> {"SQLite insert execution failed."}]
    ELSE LET done == executemany(q, insert_list)
         IN  [table |-> done.table,
              raised |-> "none",
              log |-> IF done.raised = "IntegrityError"
                      THEN {"Duplicate filename found in SQLite table."} ELSE {}]

(***************************************************************************)
(* The classifier.  A probe is one run of the probe tool: its exit status  *)
(* rc and its stdout; subprocess.run(check = True) raises                  *)
(* CalledProcessError when rc is not 0.                                    *)
(***************************************************************************)
Probe(rc, stdout) == [rc |-> rc, stdout |-> stdout]

\* verify_metadata: the failure of the tool is not caught here
verify_metadata(secondary) ==
    IF secondary.rc # 0
    THEN [raised |-> "CalledProcessError", transcode |-> "", status |-> ""]
    ELSE LET file_type == strip(lower(secondary.stdout))
         IN  IF file_type = <<"m", "a", "t", "r", "o", "s", "k", "a">>
             THEN [raised |-> "none", transcode |-> "Y", status |-> "queued"]
             ELSE [raised |-> "none", transcode |-> "N", status |-> "unknown"]

\* read_metadata that queues a file with an empty tag without verifying it
read_metadata_unverified(primary, secondary) ==
    IF primary.rc # 0
    THEN [raised |-> "none", transcode |-> "N", status |-> "unknown"]
    ELSE IF strip(lower(primary.stdout)) = <<"h", "v", "c", "1">>
         THEN [raised |-> "none", transcode |-> "N", status |-> "skipped"]
         ELSE [raised |-> "none", transcode |-> "Y", status |-> "queued"]

\* read_metadata: the try covers the primary probe only
read_metadata(primary, secondary) ==
    IF primary.rc # 0
    THEN [raised |-> "none", transcode |-> "N", status |-> "unknown"]
    ELSE LET compressor_metadata == strip(lower(primary.stdout))
         IN  IF compressor_metadata = <<"h", "v", "c", "1">>
             THEN [raised |-> "none", transcode |-> "N", status |-> "skipped"]
             ELSE IF compressor_metadata = <<>>
             THEN verify_metadata(secondary)
             ELSE [raised |-> "none", transcode |-> "Y", status |-> "queued"]

\* what the probe tool may print for -CompressorID, by the file's content:
\* an engine output and an original tagged hvc1 carry the tag hvc1
Hvc1Stdout == { <<"h", "v", "c", "1", "\n">> }
OtherStdout == { <<"a", "v", "c", "1", "\n">> }
EmptyStdout == { <<"\n">> }
DocTypeStdout == { <<"m", "a", "t", "r", "o", "s", "k", "a", "\n">>,
                   <<"w", "e", "b", "m", "\n">> }
NotRun == Probe(0, <<>>)
Failed == Probe(1, <<>>)

\* the (primary, secondary) probes a file may give; the secondary probe is
\* run only after an empty primary tag
Probes(content) ==
    IF content.kind \in {"hvc1src", "output"}
    THEN { [primary |-> Probe(0, t), secondary |-> NotRun] : t \in Hvc1Stdout }
    ELSE { [primary |-> Failed, secondary |-> NotRun] }
         \cup { [primary |-> Probe(0, t), secondary |-> NotRun] : t \in OtherStdout }
         \cup { [primary |-> Probe(0, t), secondary |-> x] :
                  t \in EmptyStdout,
                  x \in {Failed} \cup {Probe(0, d) : d \in DocTypeStdout} }


(***************************************************************************)
(* The state.                                                              *)
(***************************************************************************)
NoLast == [op |-> "none", rows |-> <<>>, states |-> [s \in {} |-> 0],
           failed |-> <<>>, probes |-> <<>>, log |-> {}]

NoSeen == [status |-> "", failed |-> 0, original |-> Content("absent", <<>>)]

ContentAt(f, p) == IF exists(f, p) THEN f[p] ELSE Content("absent", <<>>)

Init ==
    /\ \E d \in Disks : fs = DiskFs(d)
    /\ BATCH \in BatchValues
    /\ DELETE \in BOOLEAN
    /\ queue = <<>>
    /\ pc = "idle"
    /\ queue_list = <<>>
    /\ idx = 0
    /\ video_file = NoVideo
    /\ ffmpeg = "none"
    /\ transcode_status = "none"
    /\ seen = NoSeen
    /\ processed = <<>>
    /\ last = NoLast

\* the locals of a run of transcode_queue, before the run
ResetRun ==
    /\ idx' = 0
    /\ video_file' = NoVideo
    /\ ffmpeg' = "none"
    /\ transcode_status' = "none"
    /\ seen' = NoSeen
    /\ processed' = <<>>

(***************************************************************************)
(* scan_directory                                                          *)
(***************************************************************************)
RECURSIVE Perms(_)
Perms(S) == IF S = {} THEN {<<>>}
            ELSE UNION { { <<x>> \o p : p \in Perms(S \ {x}) } : x \in S }

\* os.walk(scan_path), top down: the (root, filename) of the files with a
\* video extension, those of the top directory first, in listing order
WalkOrders(f) ==
    LET found == { <<dirname(p), basename(p)>> : p \in
                     { x \in DOMAIN f : x[Len(x)] \in video_extensions } }
    IN  { l \in Perms(found) :
            \A i, j \in DOMAIN l :
                (i < j /\ l[j][1] = scan_path) => l[i][1] = scan_path }

\* the probes the files of video_list may give, one per file; an .mkv file
\* is not probed
RECURSIVE ProbeChoices(_, _)
ProbeChoices(video_list, f) ==
    IF video_list = <<>> THEN {<<>>}
    ELSE LET file == Head(video_list)
             mine == IF endswith(file[2], MKV)
                     THEN { [primary |-> NotRun, secondary |-> NotRun] }
                     ELSE Probes(f[join(file[1], file[2])])
         IN  { <<x>> \o rest : x \in mine, rest \in ProbeChoices(Tail(video_list), f) }

\* the loop of lines 395-404 without the branch of line 398: an .mkv file
\* goes to read_metadata like any other
Classify_without_mkv_branch(video_list, probe) ==
    [i \in DOMAIN video_list |->
        LET m == read_metadata(probe[i].primary, probe[i].secondary)
        IN  [raised |-> m.raised,
             row |-> Row(video_list[i][1], video_list[i][2], m.transcode, m.status)]]

\* lines 395-404: one row per file of video_list, given each file's probes
Classify(video_list, probe) ==
    [i \in DOMAIN video_list |->
        LET path == video_list[i][1]
            filename == video_list[i][2]
        IN  IF endswith(filename, MKV)
            THEN [raised |-> "none", row |-> Row(path, filename, "Y", "queued")]
            ELSE LET m == read_metadata(probe[i].primary, probe[i].secondary)
                 IN  [raised |-> m.raised,
                      row |-> Row(path, filename, m.transcode, m.status)]]

scan_directory(db) ==
    /\ pc = "idle"
    /\ \E video_list \in WalkOrders(fs) :
        IF Len(video_list) = 0
        THEN /\ pc' = "exit1"
             /\ last' = [NoLast EXCEPT !.op = "scan_directory",
                           !.log = {"Empty scan results. Is the volume mounted? Exiting."}]
             /\ queue' = queue
        ELSE \E probe \in ProbeChoices(video_list, fs) :
                LET classified == Classify(video_list, probe)
                    insert_list == [i \in DOMAIN classified |-> classified[i].row]
                    inserted == insert_scan_results(queue, insert_list, db)
                IN  IF \E i \in DOMAIN classified : classified[i].raised # "none"
                    THEN /\ pc' = "traceback"
                         /\ queue' = queue
                         /\ last' = [NoLast EXCEPT !.op = "scan_directory",
                                       !.probes = probe]
                    ELSE /\ pc' = IF inserted.raised = "none" THEN "finished" ELSE "exit1"
                         /\ queue' = inserted.table
                         /\ last' = [NoLast EXCEPT !.op = "scan_directory",
                                       !.rows = insert_list,
                                       !.probes = probe,
                                       !.log = inserted.log]
    /\ queue_list' = <<>>
    /\ ResetRun
    /\ UNCHANGED <<fs, BATCH, DELETE>>

(***************************************************************************)
(* A batch run and a retry run: the list get_batch or retry_failed returns *)
(* is handed to transcode_queue.                                           *)
(***************************************************************************)
StartRun(op, selected) ==
    /\ pc' = IF selected.raised = "SystemExit" THEN "exit1"
             ELSE IF selected.raised # "none" THEN "traceback"
             ELSE IF selected.rows = <<>> THEN "finished" ELSE "loop"
    /\ queue_list' = selected.rows
    /\ ResetRun
    /\ last' = [NoLast EXCEPT !.op = op, !.rows = selected.rows]
    /\ UNCHANGED <<queue, fs, BATCH, DELETE>>

BatchRun(db) ==
    /\ pc = "idle"
    /\ StartRun("get_batch", get_batch(queue, BATCH, db))

RetryRun(db) ==
    /\ pc = "idle"
    /\ StartRun("retry_failed", retry_failed(queue, db))

(***************************************************************************)
(* transcode_queue, one entry at a time.                                   *)
(***************************************************************************)
\* lines 441-444 and 52: the next entry, its Transcode object, and the
\* status write that opens Transcode.transcode
TranscodeBegin(db) ==
    /\ pc = "loop"
    /\ LET entry == queue_list[idx + 1]
           v == Transcode(entry[1], entry[2])
       IN  /\ video_file' = v
           /\ seen' = [status |-> StatusOf(queue, entry),
                       failed |-> CountStatus(queue, "failed"),
                       original |-> ContentAt(fs, v.input_file)]
           /\ queue' = update_status(queue, v.path, v.filename, "active", db)
    /\ idx' = idx + 1
    /\ ffmpeg' = "none"
    /\ transcode_status' = "none"
    /\ pc' = "ffmpeg"
    /\ last' = [NoLast EXCEPT !.log = update_status_log(db)]
    /\ UNCHANGED <<fs, BATCH, DELETE, queue_list, processed>>

\* line 103, ffmpeg.execute() with option y: it ends well only when the
\* input is there and the output's directory exists, and then the output
\* file is written over whatever was there; it may fail in every case,
\* before it opens the output or leaving a partial output
FFmpegExecute ==
    /\ pc = "ffmpeg"
    /\ \/ /\ exists(fs, video_file.input_file)
          /\ dirname(video_file.output_file) \in ExistingDirs
          /\ fs' = write(fs, video_file.output_file,
                         Content("output", video_file.input_file))
          /\ ffmpeg' = "ok"
       \/ /\ fs' = fs
          /\ ffmpeg' = "FFmpegError"
       \/ /\ dirname(video_file.output_file) \in ExistingDirs
          /\ fs' = write(fs, video_file.output_file,
                         Content("partial", video_file.input_file))
          /\ ffmpeg' = "FFmpegError"
    /\ pc' = "executed"
    /\ UNCHANGED <<queue, BATCH, DELETE, queue_list, idx, video_file,
                   transcode_status, seen, processed, last>>

\* lines 104-123 without the finally of lines 124-125: the status decided
\* is returned and never written
TranscodeEnd_without_finally(db) ==
    /\ pc = "executed"
    /\ transcode_status' = IF ffmpeg = "FFmpegError" THEN "failed" ELSE "done"
    /\ fs' = IF ffmpeg = "FFmpegError" /\ exists(fs, video_file.output_file)
             THEN unlink(fs, video_file.output_file) ELSE fs
    /\ last' = [NoLast EXCEPT !.op = "transcode"]
    /\ pc' = "returned"
    /\ UNCHANGED <<queue, BATCH, DELETE, queue_list, idx, video_file, ffmpeg,
                   seen, processed>>

\* lines 104-126: except, else and finally of Transcode.transcode
TranscodeEnd(db) ==
    /\ pc = "executed"
    /\ IF ffmpeg = "FFmpegError"
       THEN /\ transcode_status' = "failed"
            /\ fs' = IF exists(fs, video_file.output_file)
                     THEN unlink(fs, video_file.output_file) ELSE fs
            /\ last' = [NoLast EXCEPT !.op = "transcode",
                          !.log = (IF exists(fs, video_file.output_file)
                                   THEN {"Removed output file."}
                                   ELSE {"Nothing to remove."})
                                  \cup update_status_log(db)]
       ELSE /\ transcode_status' = "done"
            /\ fs' = fs
            /\ last' = [NoLast EXCEPT !.op = "transcode",
                          !.log = {"transcoded successfully."}
                                  \cup update_status_log(db)]
    /\ queue' = update_status(queue, video_file.path, video_file.filename,
                              transcode_status', db)
    /\ pc' = "returned"
    /\ UNCHANGED <<BATCH, DELETE, queue_list, idx, video_file, ffmpeg, seen,
                   processed>>

\* the loop leaving at the first entry that failed
LoopNext_break ==
    /\ pc = "returned"
    /\ fs' = IF transcode_status = "done" /\ DELETE
             THEN delete_original(fs, video_file) ELSE fs
    /\ processed' = Append(processed, queue_list[idx])
    /\ pc' = IF idx < Len(queue_list) /\ transcode_status = "done"
             THEN "loop" ELSE "finished"
    /\ UNCHANGED <<queue, BATCH, DELETE, queue_list, idx, video_file, ffmpeg,
                   transcode_status, seen, last>>

\* lines 446-447 and the loop's next turn
LoopNext ==
    /\ pc = "returned"
    /\ fs' = IF transcode_status = "done" /\ DELETE
             THEN delete_original(fs, video_file) ELSE fs
    /\ processed' = Append(processed, queue_list[idx])
    /\ pc' = IF idx < Len(queue_list) THEN "loop" ELSE "finished"
    /\ UNCHANGED <<queue, BATCH, DELETE, queue_list, idx, video_file, ffmpeg,
                   transcode_status, seen, last>>

(***************************************************************************)
(* final_results                                                           *)
(***************************************************************************)
FinalResults(db) ==
    /\ pc = "idle"
    /\ LET r == final_results(queue, db)
       IN  /\ pc' = IF r.raised = "none" THEN "finished" ELSE "traceback"
           /\ last' = [NoLast EXCEPT !.op = "final_results",
                         !.states = r.final_count_msg, !.failed = r.failed]
    /\ queue_list' = <<>>
    /\ ResetRun
    /\ UNCHANGED <<queue, fs, BATCH, DELETE>>

\* the operation has returned: its caller goes on, the operation's locals
\* are gone
Return ==
    /\ pc = "finished"
    /\ pc' = "idle"
    /\ queue_list' = <<>>
    /\ ResetRun
    /\ last' = NoLast
    /\ UNCHANGED <<queue, fs, BATCH, DELETE>>

\* the process ended (SystemExit(1), an exception nobody caught, or it was
\* stopped); the program is run again on the same table and the same disk
Start ==
    /\ pc \in {"exit1", "traceback", "stopped"}
    /\ pc' = "idle"
    /\ queue_list' = <<>>
    /\ ResetRun
    /\ last' = NoLast
    /\ UNCHANGED <<queue, fs, BATCH, DELETE>>

(***************************************************************************)
(* Spec: the storage engine executes every statement it is given.          *)
(***************************************************************************)
Next ==
    \/ scan_directory("ok")
    \/ BatchRun("ok")
    \/ RetryRun("ok")
    \/ TranscodeBegin("ok")
    \/ FFmpegExecute
    \/ TranscodeEnd("ok")
    \/ LoopNext
    \/ FinalResults("ok")
    \/ Return
    \/ Start

Spec == Init /\ [][Next]_vars

\* FairSpec: the process is not stopped in the middle of transcode_queue:
\* each statement of the loop is followed by the next, and every call of
\* the engine returns
FairSpec ==
    /\ Spec
    /\ WF_vars(TranscodeBegin("ok"))
    /\ WF_vars(FFmpegExecute)
    /\ WF_vars(TranscodeEnd("ok"))
    /\ WF_vars(LoopNext)

(***************************************************************************)
(* SpecFault: the storage engine may raise sqlite3.Error on any statement. *)
(* The scan is run to fill the empty table, and not again after that;      *)
(* BATCH is 0 (no limit) and DELETE is set.                                *)
(***************************************************************************)
ScanOnce(db) ==
    /\ queue = <<>>
    /\ scan_directory(db)

InitFault ==
    /\ Init
    /\ BATCH = <<"0">>
    /\ DELETE

NextFault ==
    \/ \E db \in Storage : ScanOnce(db)
    \/ \E db \in Storage : BatchRun(db)
    \/ \E db \in Storage : RetryRun(db)
    \/ \E db \in Storage : TranscodeBegin(db)
    \/ FFmpegExecute
    \/ \E db \in Storage : TranscodeEnd(db)
    \/ LoopNext
    \/ \E db \in Storage : FinalResults(db)
    \/ Return
    \/ Start

SpecFault == InitFault /\ [][NextFault]_vars

\* FairFault: SpecFault with a process that is not stopped in the middle of
\* transcode_queue
FairFault ==
    /\ SpecFault
    /\ WF_vars(\E db \in Storage : TranscodeBegin(db))
    /\ WF_vars(FFmpegExecute)
    /\ WF_vars(\E db \in Storage : TranscodeEnd(db))
    /\ WF_vars(LoopNext)

(***************************************************************************)
(* SpecCrash: the process may be stopped in the middle of transcode_queue. *)
(* The scan is run to fill the empty table, and not again after that.      *)
(***************************************************************************)
\* the process stops while ffmpeg.execute() (line 103) is running: the engine
\* may have begun its output file
StopInEngine ==
    /\ pc = "ffmpeg"
    /\ \/ fs' = fs
       \/ /\ exists(fs, video_file.input_file)
          /\ dirname(video_file.output_file) \in ExistingDirs
          /\ fs' = write(fs, video_file.output_file,
                         Content("partial", video_file.input_file))
    /\ pc' = "stopped"
    /\ UNCHANGED <<queue, BATCH, DELETE, queue_list, idx, video_file, ffmpeg,
                   transcode_status, seen, processed, last>>

\* the process stops between two statements of the run
StopBetween ==
    /\ pc \in {"loop", "executed", "returned"}
    /\ pc' = "stopped"
    /\ UNCHANGED <<queue, fs, BATCH, DELETE, queue_list, idx, video_file, ffmpeg,
                   transcode_status, seen, processed, last>>

NextCrash ==
    \/ ScanOnce("ok")
    \/ BatchRun("ok")
    \/ RetryRun("ok")
    \/ TranscodeBegin("ok")
    \/ FFmpegExecute
    \/ TranscodeEnd("ok")
    \/ LoopNext
    \/ FinalResults("ok")
    \/ Return
    \/ Start
    \/ StopInEngine
    \/ StopBetween

SpecCrash == Init /\ [][NextCrash]_vars

(***************************************************************************)
(* SpecE2E: the program on a disk that holds /mnt/movie.mkv and            *)
(* /mnt/clip.mp4, the latter tagged hvc1, with BATCH 0: the scan fills the *)
(* empty table, then come batch runs, retry runs and reports.              *)
(***************************************************************************)
E2EDisk ==
    { [path |-> scan_path, filename |-> <<"movie", MKV>>, kind |-> "src"],
      [path |-> scan_path, filename |-> <<"clip", MP4>>, kind |-> "hvc1src"] }

InitE2E ==
    /\ Init
    /\ fs = DiskFs(E2EDisk)
    /\ BATCH = <<"0">>

NextE2E ==
    \/ ScanOnce("ok")
    \/ BatchRun("ok")
    \/ RetryRun("ok")
    \/ TranscodeBegin("ok")
    \/ FFmpegExecute
    \/ TranscodeEnd("ok")
    \/ LoopNext
    \/ FinalResults("ok")
    \/ Return

SpecE2E == InitE2E /\ [][NextE2E]_vars

(***************************************************************************)
(* What the claims speak of.                                               *)
(***************************************************************************)
\* the key of the entry transcode_queue is working on, or has just finished
Entry == <<video_file.path, video_file.filename>>

\* Transcode.transcode is running for the entry: its engine is about to be
\* invoked, or has been invoked and the handlers of lines 104-126 are due
InTranscode == pc \in {"ffmpeg", "executed"}

\* the entry has been through Transcode.transcode, and the run has not
\* given up its locals yet
Transcoded == pc = "returned" \/ (pc \in {"loop", "finished"} /\ video_file # NoVideo)

RowOf(q, k) == q[CHOOSE i \in DOMAIN q : Key(q[i]) = k]

(***************************************************************************)
(* C1  An entry that transcode() takes up at status queued is active in    *)
(* the table while the engine is invoked, and after the engine call it is  *)
(* done when the engine succeeded and failed when it failed; no row goes   *)
(* from queued to anything but active, and the entry is not queued once    *)
(* its processing has finished.                                            *)
(***************************************************************************)
C1_Inv ==
    seen.status = "queued" =>
        /\ InTranscode => StatusOf(queue, Entry) = "active"
        /\ Transcoded =>
              /\ ffmpeg = "ok" => StatusOf(queue, Entry) = "done"
              /\ ffmpeg = "FFmpegError" => StatusOf(queue, Entry) = "failed"
              /\ ffmpeg \in {"ok", "FFmpegError"}

C1_Step ==
    \A i \in DOMAIN queue :
        (queue[i].status = "queued" /\ i \in DOMAIN queue') =>
            queue'[i].status \in {"queued", "active"}

C2_NeverTranscodesN ==
    /\ last.op = "get_batch" =>
          \A i \in DOMAIN last.rows :
              /\ last.rows[i] \in Keys(queue)
              /\ RowOf(queue, last.rows[i]).transcode = "Y"
              /\ RowOf(queue, last.rows[i]).status = "queued"
    /\ InTranscode =>
          /\ Entry \in Keys(queue)
          /\ RowOf(queue, Entry).transcode = "Y"

C2_Witness ==
    /\ pc = "executed"
    /\ seen.status = "failed"
    /\ \E i \in DOMAIN queue : queue[i].transcode = "N" /\ queue[i].status = "unknown"

(***************************************************************************)
(* C3  retry_failed returns exactly the (path, filename) of the rows whose *)
(* status is failed: every failed row, once, and no row of another status. *)
(***************************************************************************)
C3_RetryIsExactlyFailed ==
    last.op = "retry_failed" =>
        /\ {last.rows[i] : i \in DOMAIN last.rows}
              = {Key(queue[i]) : i \in {j \in DOMAIN queue : queue[j].status = "failed"}}
        /\ Len(last.rows) = CountStatus(queue, "failed")

C3_Witness ==
    /\ last.op = "retry_failed"
    /\ Len(last.rows) = 1
    /\ \E i \in DOMAIN queue : queue[i].status = "done"
    /\ \E i \in DOMAIN queue : queue[i].status \in {"skipped", "unknown"}

(***************************************************************************)
(* C4  After insert_scan_results on a batch with a key that is already in  *)
(* the table, or twice in the batch, the table has one row for that key,   *)
(* the duplicate was logged and the process goes on, and every row of the  *)
(* batch has its key in the table: the rows with a new key were committed, *)
(* before the duplicate and after it.                                      *)
(***************************************************************************)
C4_UnrelatedRowsCommit ==
    (last.op = "scan_directory" /\ pc = "finished") =>
        /\ \A i \in DOMAIN last.rows : Key(last.rows[i]) \in Keys(queue)
        /\ \A i, j \in DOMAIN queue : Key(queue[i]) = Key(queue[j]) => i = j

C6_Eligible ==
    LET rows == SelectSeq(queue, LAMBDA r : r.transcode = "Y" /\ r.status = "queued")
    IN  [i \in DOMAIN rows |-> <<rows[i].path, rows[i].filename>>]

C6_Cap(n) == SubSeq(C6_Eligible, 1, IF n <= Len(C6_Eligible) THEN n ELSE Len(C6_Eligible))

\* C6: BATCH 0, -5 or abc selects every eligible row; BATCH 1 or 2 selects
\* the first min(n, eligible) rows in insertion order
C6_BatchSize ==
    last.op = "get_batch" =>
        /\ BATCH \in {<<"0">>, <<"-", "5">>, <<"a", "b", "c">>} => last.rows = C6_Eligible
        /\ BATCH = <<"1">> => last.rows = C6_Cap(1)
        /\ BATCH = <<"2">> => last.rows = C6_Cap(2)
        /\ BATCH \in {<<"0">>, <<"-", "5">>, <<"a", "b", "c">>, <<"1">>, <<"2">>}

C6_Witness ==
    /\ last.op = "get_batch"
    /\ BATCH = <<"1">>
    /\ Len(C6_Eligible) = 2
    /\ last.rows = <<C6_Eligible[1]>>

(***************************************************************************)
(* C7  The classification of a probed file is decided by its probes:       *)
(* primary tag hvc1 gives (N, skipped); a failed primary probe gives       *)
(* (N, unknown); an empty primary tag gives (Y, queued) with the secondary *)
(* tag matroska and (N, unknown) with another secondary tag; another       *)
(* primary tag gives (Y, queued).  The classifier gives no result only     *)
(* when the secondary probe itself fails.                                  *)
(***************************************************************************)
C7_Expected(p) ==
    IF p.primary.rc # 0 THEN <<"N", "unknown">>
    ELSE IF p.primary.stdout = <<"h", "v", "c", "1", "\n">> THEN <<"N", "skipped">>
    ELSE IF p.primary.stdout = <<"\n">>
         THEN IF p.secondary.stdout = <<"m", "a", "t", "r", "o", "s", "k", "a", "\n">>
              THEN <<"Y", "queued">> ELSE <<"N", "unknown">>
    ELSE <<"Y", "queued">>

C8_Disposal ==
    video_file # NoVideo =>
        LET input == video_file.input_file
            output == video_file.output_file
        IN  /\ (InTranscode \/ pc = "returned") => ContentAt(fs, input) = seen.original
            /\ pc \in {"loop", "finished"} =>
                  IF DELETE /\ transcode_status = "done"
                  THEN IF endswith(video_file.filename, MKV)
                       THEN /\ ~exists(fs, input)
                            /\ ContentAt(fs, output) = Content("output", input)
                       ELSE /\ ContentAt(fs, input) = Content("output", input)
                            /\ ~exists(fs, output)
                  ELSE ContentAt(fs, input) = seen.original

C8_Witness ==
    /\ pc \in {"loop", "finished"}
    /\ DELETE
    /\ transcode_status = "done"
    /\ endswith(video_file.filename, MP4)
    /\ seen.original = Content("src", <<>>)
    /\ fs[video_file.input_file] = Content("output", video_file.input_file)
    /\ ~exists(fs, video_file.output_file)

(***************************************************************************)
(* C9  Every entry of the list handed to transcode_queue is processed      *)
(* once, in list order, and ends done or failed, whatever became of the    *)
(* entries before it; a run that has begun finishes with the whole list    *)
(* processed.                                                              *)
(***************************************************************************)
C9_Inv ==
    /\ pc \in {"loop", "ffmpeg", "executed", "returned", "finished"} =>
          /\ Len(processed) <= Len(queue_list)
          /\ processed = SubSeq(queue_list, 1, Len(processed))
    /\ pc = "loop" => Len(processed) = idx /\ idx < Len(queue_list)
    /\ (InTranscode \/ pc = "returned") =>
          /\ Len(processed) = idx - 1
          /\ idx \in DOMAIN queue_list
          /\ Entry = queue_list[idx]
    /\ pc = "finished" => processed = queue_list
    /\ \A i, j \in DOMAIN processed : processed[i] = processed[j] => i = j
    /\ \A i \in DOMAIN processed : StatusOf(queue, processed[i]) \in {"done", "failed"}

C10_FailedListed ==
    /\ {last.failed[i] : i \in DOMAIN last.failed}
          = {Key(queue[i]) : i \in {j \in DOMAIN queue : queue[j].status = "failed"}}
    /\ Len(last.failed) = CountStatus(queue, "failed")

\* C10 as stated: the report has the count of every status value, active
\* included, and exactly the failed rows
C10_Aggregate ==
    last.op = "final_results" =>
        /\ \A s \in Status :
              /\ s \in DOMAIN last.states
              /\ last.states[s] = Cardinality({i \in DOMAIN queue : queue[i].status = s})
        /\ C10_FailedListed

C10_Reported ==
    last.op = "final_results" =>
        /\ \A s \in {"done", "failed", "queued", "skipped", "unknown"} :
              /\ s \in DOMAIN last.states
              /\ last.states[s] = Cardinality({i \in DOMAIN queue : queue[i].status = s})
        /\ "active" \notin DOMAIN last.states
        /\ C10_FailedListed

C10_ReadOnly == (pc = "idle" /\ last'.op = "final_results") => queue' = queue

\* C10 as amended: the report has the count of done, failed, queued, skipped
\* and unknown, none for active, exactly the failed rows, and final_results
\* changes no row
C10_Amended == []C10_Reported /\ [][C10_ReadOnly]_vars

C10_Witness ==
    /\ last.op = "final_results"
    /\ last.states["failed"] = 1
    /\ last.states["done"] = 1
    /\ last.states["queued"] = 0
    /\ Len(last.failed) = 1

(***************************************************************************)
(* C11  A row that is skipped or unknown stays as it is: no step changes   *)
(* it, no batch or retry selection returns it, transcode_queue is never    *)
(* handed it, and what retry_failed returns is failed, nothing else.       *)
(***************************************************************************)
C11_Terminal_Status == {"skipped", "unknown"}

C11_Step ==
    \A i \in DOMAIN queue :
        queue[i].status \in C11_Terminal_Status =>
            i \in DOMAIN queue' /\ queue'[i] = queue[i]

C11_Inv ==
    /\ last.op \in {"get_batch", "retry_failed"} =>
          \A i \in DOMAIN last.rows :
              StatusOf(queue, last.rows[i]) \notin C11_Terminal_Status
    /\ last.op = "retry_failed" =>
          \A i \in DOMAIN last.rows : StatusOf(queue, last.rows[i]) = "failed"
    /\ \A i \in DOMAIN queue_list :
          StatusOf(queue, queue_list[i]) \notin C11_Terminal_Status
    /\ video_file # NoVideo => seen.status \notin C11_Terminal_Status

\* C11: skipped and unknown rows are never changed, never selected for a
\* batch or a retry and never transcoded; a retry selection holds failed
\* rows only
C11_Terminal == [][C11_Step]_vars /\ []C11_Inv

C11_Witness ==
    /\ pc = "returned"
    /\ seen.status = "failed"
    /\ transcode_status = "done"
    /\ \E i \in DOMAIN queue : queue[i].status = "skipped"

(***************************************************************************)
(* C12  No step deletes a row or changes a row's path, filename or         *)
(* transcode flag, and a row's status changes only from queued to active,  *)
(* from active to done and from active to failed.                          *)
(* C12_Amended: ... and, in a retry run, from failed to active.            *)
(***************************************************************************)
C12_Kept(i) ==
    /\ i \in DOMAIN queue'
    /\ queue'[i].path = queue[i].path
    /\ queue'[i].filename = queue[i].filename
    /\ queue'[i].transcode = queue[i].transcode

C12_Changes(allowed) ==
    \A i \in DOMAIN queue :
        /\ C12_Kept(i)
        /\ queue'[i].status # queue[i].status =>
              <<queue[i].status, queue'[i].status>> \in allowed

C12_Stated == { <<"queued", "active">>, <<"active", "done">>, <<"active", "failed">> }

C12_RetryStep ==
    \A i \in DOMAIN queue :
        (i \in DOMAIN queue' /\ queue[i].status = "failed" /\ queue'[i].status = "active") =>
            /\ pc = "loop"
            /\ queue_list[idx + 1] = Key(queue[i])

C13_movie == <<scan_path, <<"movie", MKV>>>>
C13_clip == <<scan_path, <<"clip", MP4>>>>
C13_movie_mkv == <<"/mnt", SEP, "movie", MKV>>
C13_movie_mp4 == <<"/mnt", SEP, "movie", MP4>>
C13_clip_mp4 == <<"/mnt", SEP, "clip", MP4>>

\* C13: the scan's two rows, the batch run's one transcode of movie.mkv into
\* /mnt/movie.mp4, the disposal of movie.mkv under DELETE, and the report
\* done 1, skipped 1, failed 0, queued 0, unknown 0
C13_EndToEnd ==
    /\ (last.op = "scan_directory" /\ pc = "finished") =>
          /\ Len(queue) = 2
          /\ {queue[1], queue[2]} =
                { Row(scan_path, <<"movie", MKV>>, "Y", "queued"),
                  Row(scan_path, <<"clip", MP4>>, "N", "skipped") }
    /\ queue # <<>> =>
          /\ Keys(queue) = {C13_movie, C13_clip} /\ Len(queue) = 2
          /\ StatusOf(queue, C13_clip) = "skipped"
          /\ ContentAt(fs, C13_clip_mp4) = Content("hvc1src", <<>>)
    /\ (last.op = "get_batch" /\ StatusOf(queue, C13_movie) = "queued") =>
          last.rows = <<C13_movie>>
    /\ video_file # NoVideo =>
          /\ Entry = C13_movie
          /\ video_file.input_file = C13_movie_mkv
          /\ video_file.output_file = C13_movie_mp4
    /\ (Transcoded /\ ffmpeg = "ok" /\ seen.status = "queued") =>
          /\ StatusOf(queue, C13_movie) = "done"
          /\ ContentAt(fs, C13_movie_mp4) = Content("output", C13_movie_mkv)
          /\ pc \in {"loop", "finished"} => (DELETE <=> ~exists(fs, C13_movie_mkv))
    /\ (last.op = "final_results" /\ StatusOf(queue, C13_movie) = "done") =>
          last.states = [s \in {"done", "failed", "queued", "skipped", "unknown"} |->
                           IF s \in {"done", "skipped"} THEN 1 ELSE 0]

C13_Witness ==
    /\ last.op = "final_results"
    /\ last.states["done"] = 1 /\ last.states["skipped"] = 1
    /\ DELETE
    /\ DOMAIN fs = {C13_movie_mp4, C13_clip_mp4}
    /\ fs[C13_movie_mp4] = Content("output", C13_movie_mkv)

C15_Written(k, status) ==
    [i \in DOMAIN queue |->
        IF Key(queue[i]) = k THEN [queue[i] EXCEPT !.status = status] ELSE queue[i]]

C15_Write(k, status) ==
    IF "SQLite transcode status update failed." \in last'.log
    THEN queue' = queue
    ELSE queue' = C15_Written(k, status)

C15_Step ==
    /\ pc = "loop" =>
          /\ C15_Write(queue_list[idx + 1], "active")
          /\ pc' = "ffmpeg"
          /\ idx' = idx + 1
    /\ pc = "executed" =>
          /\ C15_Write(Entry, IF ffmpeg = "ok" THEN "done" ELSE "failed")
          /\ pc' = "returned"
          /\ UNCHANGED <<queue_list, idx, processed>>
    /\ pc \in {"ffmpeg", "returned"} => queue' = queue

\* C15: a status write changes the matching row only, a failed status write
\* changes nothing and is logged, and the run goes on to the end of its list
\* either way
C15_BestEffort ==
    /\ [][C15_Step]_vars
    /\ (pc = "loop") ~> (pc = "finished" /\ processed = queue_list)

C15_Witness ==
    /\ pc = "finished"
    /\ Len(processed) = 2
    /\ processed = queue_list
    /\ StatusOf(queue, processed[1]) = "queued"
    /\ StatusOf(queue, processed[2]) = "done"

(***************************************************************************)
(* C16  When the process is stopped while ffmpeg.execute() is running for  *)
(* an entry, the entry's row is active; and a row that is active without   *)
(* Transcode.transcode working on it is never selected by get_batch or     *)
(* retry_failed, never taken up by transcode_queue and never changed: it   *)
(* is active in every later state.                                         *)
(***************************************************************************)
C16_Orphan(i) ==
    /\ queue[i].status = "active"
    /\ ~(InTranscode /\ Key(queue[i]) = Entry)

C16_Inv ==
    /\ (pc = "stopped" /\ video_file # NoVideo /\ ffmpeg = "none") =>
          StatusOf(queue, Entry) = "active"
    /\ last.op \in {"get_batch", "retry_failed"} =>
          \A i \in DOMAIN last.rows : StatusOf(queue, last.rows[i]) # "active"
    /\ pc # "stopped" =>
          \A i \in DOMAIN queue :
              C16_Orphan(i) => \A j \in DOMAIN queue_list : queue_list[j] # Key(queue[i])

C16_Step ==
    \A i \in DOMAIN queue :
        C16_Orphan(i) =>
            /\ i \in DOMAIN queue'
            /\ queue'[i] = queue[i]
            /\ ~(/\ pc' \in {"ffmpeg", "executed"}
                 /\ <<video_file'.path, video_file'.filename>> = Key(queue[i]))

C17_ProbeFailureNotFatal ==
    (last.op = "scan_directory" /\ last.probes # <<>>) =>
        /\ pc # "traceback"
        /\ Len(last.rows) = Len(last.probes)
        /\ \A i \in DOMAIN last.rows :
              (last.probes[i].primary.rc # 0 \/ last.probes[i].secondary.rc # 0) =>
                  (last.rows[i].transcode = "N" /\ last.rows[i].status = "unknown")

(***************************************************************************)
(* C18  A storage error in retry_failed or in final_results is logged and  *)
(* the operation returns to its caller; the process ends, with a non-zero  *)
(* exit status, only on a storage error in the insert or in the batch      *)
(* selection.                                                              *)
(***************************************************************************)
C18_CaughtAndLogged ==
    /\ last.op \in {"retry_failed", "final_results"} => pc \in {"loop", "finished"}
    /\ last.op = "get_batch" => pc \in {"loop", "finished", "exit1"}
    /\ "SQLite insert execution failed." \in last.log => pc = "exit1"

(***************************************************************************)
(* C19  The output path of an entry is its input path with the final       *)
(* extension replaced, .mkv by .mp4 and .mp4 by .h265: it is in the        *)
(* entry's directory, it is not the input path, and computing it again     *)
(* gives the same path.                                                    *)
(***************************************************************************)
C19_OutputBesideSource ==
    video_file # NoVideo =>
        LET input == video_file.input_file
            output == video_file.output_file
            stem == SubSeq(input, 1, Len(input) - 1)
        IN  /\ output = stem \o <<IF input[Len(input)] = MKV THEN MP4 ELSE H265>>
            /\ dirname(output) = video_file.path
            /\ output # input
            /\ output = Transcode(video_file.path, video_file.filename).output_file

(***************************************************************************)
(* C20  While transcode_queue works on one entry, the engine's output, the *)
(* cleanup after a failure and the disposal of the original leave the file *)
(* of every other row of the table as it is.                               *)
(***************************************************************************)
C20_Step ==
    pc \in {"ffmpeg", "executed", "returned"} =>
        \A i \in DOMAIN queue :
            Key(queue[i]) # Entry =>
                ContentAt(fs', join(queue[i].path, queue[i].filename))
                    = ContentAt(fs, join(queue[i].path, queue[i].filename))

\* C20: no step of an entry's processing changes the file of another row
C20_OtherSourcesUntouched == [][C20_Step]_vars

(***************************************************************************)
(* C21  When transcode_queue has deleted or replaced the original of the   *)
(* entry it worked on, the entry's row is done, whether the status writes  *)
(* of Transcode.transcode took effect or not.                              *)
(***************************************************************************)
C21_DisposedIsDone ==
    (video_file # NoVideo /\ pc \in {"loop", "finished"}) =>
        (ContentAt(fs, video_file.input_file) # seen.original =>
            StatusOf(queue, Entry) = "done")

(***************************************************************************)
(* C22  A row that is done stays done: no step changes it, no batch or     *)
(* retry selection returns it, and transcode_queue never takes it up; and  *)
(* a row that is active, done or failed has transcode = 'Y'.               *)
(***************************************************************************)
C22_Inv ==
    /\ last.op \in {"get_batch", "retry_failed"} =>
          \A i \in DOMAIN last.rows : StatusOf(queue, last.rows[i]) # "done"
    /\ pc \in {"loop", "ffmpeg", "executed", "returned"} =>
          \A j \in DOMAIN queue_list :
              j > idx => StatusOf(queue, queue_list[j]) # "done"
    /\ InTranscode => (video_file # NoVideo /\ seen.status # "done")
    /\ \A i \in DOMAIN queue :
          queue[i].status \in {"active", "done", "failed"} => queue[i].transcode = "Y"

C22_Step ==
    \A i \in DOMAIN queue :
        queue[i].status = "done" =>
            /\ i \in DOMAIN queue'
            /\ queue'[i] = queue[i]
            /\ ~(/\ pc' = "ffmpeg"
                 /\ pc = "loop"
                 /\ <<video_file'.path, video_file'.filename>> = Key(queue[i]))

\* C22: done rows are never changed, never selected and never handed to the
\* engine, and active, done and failed rows carry the transcode flag Y
C22_DoneAbsorbing == []C22_Inv /\ [][C22_Step]_vars

C22_Witness ==
    /\ pc = "returned"
    /\ seen.status = "failed"
    /\ \E i \in DOMAIN queue : queue[i].status = "done" /\ Key(queue[i]) # Entry
    /\ \E i \in DOMAIN queue : queue[i].transcode = "Y" /\ Key(queue[i]) = Entry

====
